---- MODULE Spec2Model ----
(***************************************************************************)
(* Model of the card scraper (src/c.py) and of the image downloader        *)
(* (src/d.py).                                                             *)
(*                                                                         *)
(* A card record (a Python dict) is a function from a set of field names   *)
(* to values.  A dict keyed by card name is the sequence of its values in  *)
(* insertion order: the key of a value is always its "name" field.         *)
(* Timestamps (datetime.now().isoformat()) are natural numbers, ordered as *)
(* the clock is.  Card names are natural numbers >= 1; the program only    *)
(* ever compares names for equality.                                       *)
(***************************************************************************)
EXTENDS Naturals, Sequences, FiniteSets

(* ------------------------------ bounds ------------------------------- *)

\* runs of the scraper in one behaviour
MaxRuns ==
  2

\* listing items the site serves in a behaviour of one run
MaxCards ==
  6

\* listing items the site serves in a behaviour of several runs
MaxRerunCards ==
  3

\* listing items on one page
MaxItems ==
  3

\* in the runs that follow the schedule of the requests: the pages of the
\* explicit page list, and the pages of the site that list a card
SchedArgPages ==
  6

SchedSitePages ==
  6

\* runs of the image downloader in one behaviour
MaxDlRuns ==
  2

\* cards of the store the image downloader reads
MaxDlCards ==
  2

(* -------------------------- program constants ------------------------ *)

total_pages ==
  114

group_size ==
  5

\* math.ceil(total_pages / group_size)
num_groups ==
  (total_pages + group_size - 1) \div group_size

(* ------------------------------ helpers ------------------------------ *)

Min(a, b) ==
  IF a <= b THEN a ELSE b

Max(a, b) ==
  IF a >= b THEN a ELSE b

Range(s) ==
  {s[i] : i \in 1..Len(s)}

SetMax(S) ==
  IF S = {} THEN 0 ELSE CHOOSE y \in S : \A z \in S : z <= y

\* 'name' in card
HasName(card) ==
  "name" \in DOMAIN card

\* dict.update(other): the keys of other replace or extend those of d
DictUpdate(d, other) ==
  [k \in (DOMAIN d) \cup (DOMAIN other) |->
     IF k \in DOMAIN other THEN other[k] ELSE d[k]]

\* d[key] = value
DictSet(d, key, value) ==
  [k \in (DOMAIN d) \cup {key} |-> IF k = key THEN value ELSE d[k]]

\* the position of the value keyed by name n in a dict, 0 when n is no key
RECURSIVE KeyIndex(_, _)
KeyIndex(dict, n) ==
  IF dict = << >> THEN 0
  ELSE IF dict[Len(dict)].name = n /\ KeyIndex(SubSeq(dict, 1, Len(dict) - 1), n) = 0
       THEN Len(dict)
       ELSE KeyIndex(SubSeq(dict, 1, Len(dict) - 1), n)

\* the names of the records of a list that have one
NamesOf(cards) ==
  {cards[i].name : i \in {j \in 1..Len(cards) : HasName(cards[j])}}

(* --------------------------- load_existing_cards --------------------- *)

\* {card['name']: card for card in cards if 'name' in card}: a key keeps the
\* position of its first occurrence and the value of its last one
RECURSIVE DictOfCards(_)
DictOfCards(cards) ==
  IF cards = << >> THEN << >>
  ELSE LET front == DictOfCards(SubSeq(cards, 1, Len(cards) - 1))
           card  == cards[Len(cards)]
       IN IF ~HasName(card) THEN front
          ELSE IF KeyIndex(front, card.name) = 0 THEN Append(front, card)
          ELSE [front EXCEPT ![KeyIndex(front, card.name)] = card]

\* A store file: state "absent" (os.path.exists is false), "corrupt" (json.load
\* or the comprehension raises) or "json" (the list of records it holds).
AbsentFile ==
  [state |-> "absent", cards |-> << >>]

JsonFile(cards) ==
  [state |-> "json", cards |-> cards]

load_existing_cards(file) ==
  IF file.state = "absent" THEN << >>
  ELSE IF file.state = "corrupt" THEN << >>
  ELSE DictOfCards(file.cards)

(* ------------------------------ merge_cards -------------------------- *)

\* (a variant that forgets created_at)
StampNew_no_created(card, t) ==
  DictSet(card, "updated_at", t)

\* (a variant that takes the time once per field)
StampNew_per_field(card, t) ==
  DictSet(DictSet(card, "created_at", t), "updated_at", t + 1)

\* card['created_at'] = t; card['updated_at'] = t
StampNew(card, t) ==
  DictSet(DictSet(card, "created_at", t), "updated_at", t)

\* (a variant that stamps an updated record as it stamps a new one)
UpdateExisting_restamp(obj, card, t) ==
  DictSet(DictSet(DictUpdate(obj, card), "created_at", t), "updated_at", t)

\* (a variant where the stored values win over the scraped ones)
UpdateExisting_keep_old(obj, card, t) ==
  DictSet(DictUpdate(card, obj), "updated_at", t)

\* merged[card['name']].update(card); merged[card['name']]['updated_at'] = t
UpdateExisting(obj, card, t) ==
  DictSet(DictUpdate(obj, card), "updated_at", t)

\* (a variant that sets updated_at on the card before it looks for its name)
merge_step_stamp_first(m, i, t) ==
  LET card == m.new[i]
      k    == KeyIndex(m.merged, card.name)
  IN IF ~HasName(card)
     THEN [merged |-> m.merged,
           owner  |-> m.owner,
           new    |-> [m.new EXCEPT ![i] = DictSet(card, "updated_at", t)]]
     ELSE IF k # 0
     THEN LET upd == UpdateExisting(m.merged[k], card, t)
          IN [merged |-> [m.merged EXCEPT ![k] = upd],
              owner  |-> m.owner,
              new    |-> IF m.owner[k] # 0
                         THEN [m.new EXCEPT ![m.owner[k]] = upd]
                         ELSE m.new]
     ELSE LET stamped == StampNew(card, t)
          IN [merged |-> Append(m.merged, stamped),
              owner  |-> Append(m.owner, i),
              new    |-> [m.new EXCEPT ![i] = stamped]]

\* One iteration of the loop over new_cards.  m.merged is the dict merged;
\* m.owner[k] tells which object the k-th value of merged is: 0 for the object
\* of existing_cards under the same key (existing_cards.copy() is shallow), j for
\* the object new_cards[j]; m.new is new_cards with its objects as mutated so far.
merge_step(m, i, t) ==
  LET card == m.new[i]
      k    == KeyIndex(m.merged, card.name)
  IN IF ~HasName(card) THEN m
     ELSE IF k # 0
     THEN LET upd == UpdateExisting(m.merged[k], card, t)
          IN [merged |-> [m.merged EXCEPT ![k] = upd],
              owner  |-> m.owner,
              new    |-> IF m.owner[k] # 0
                         THEN [m.new EXCEPT ![m.owner[k]] = upd]
                         ELSE m.new]
     ELSE LET stamped == StampNew(card, t)
          IN [merged |-> Append(m.merged, stamped),
              owner  |-> Append(m.owner, i),
              new    |-> [m.new EXCEPT ![i] = stamped]]

RECURSIVE merge_loop(_, _, _)
merge_loop(m, i, t) ==
  IF i > Len(m.new) THEN m ELSE merge_loop(merge_step(m, i, t), i + 1, t)

\* merge_cards(existing_cards, new_cards) with current_time = t.  The list
\* returned is .merged; the objects of existing_cards after the call are the
\* first Len(existing_cards) values of .merged, those of new_cards are .new.
merge_cards(existing_cards, new_cards, t) ==
  merge_loop([merged |-> existing_cards,
              owner  |-> [k \in 1..Len(existing_cards) |-> 0],
              new    |-> new_cards], 1, t)

(* ----------------------------- get_card_info ------------------------- *)

\* One listing item of a page (li.p-planSearchList_item), as the markup gives it:
\*   name       0 when the item has no name link, else the text of the link
\*   fee        "" when the item has no annual-fee row, else the text of the row
\*   spec_head  FALSE when a specification row lacks its heading element
\* The other fields of a card (image_url, brands, point_rate, rank, ...) are
\* optional data fields that the run treats as it treats annual_fee.
Item(n, f, h) ==
  [name |-> n, fee |-> f, spec_head |-> h]

\* the card built from one item that raises nothing (lines 72-133); the key
\* "features" is always set, to the list of feature strings (none here)
extract_card(item) ==
  LET fields == {"features"}
                  \cup (IF item.name # 0 THEN {"name"} ELSE {})
                  \cup (IF item.fee # "" THEN {"annual_fee"} ELSE {})
  IN [k \in fields |-> IF k = "name" THEN item.name
                       ELSE IF k = "annual_fee" THEN item.fee
                       ELSE << >>]

\* spec.find(...).text raises AttributeError when the heading element is missing
ParseRaises(items) ==
  \E i \in 1..Len(items) : ~items[i].spec_head

\* The response to one page request: error is a transport error raised by
\* session.get or by reading the body; items is the markup otherwise.
Response(err, items) ==
  [error |-> err, items |-> items]

\* (a variant that lets a transport error leave get_card_info)
get_card_info_uncaught(resp) ==
  IF resp.error
  THEN [cards |-> << >>, slept |-> FALSE, raised |-> TRUE]
  ELSE IF ParseRaises(resp.items)
  THEN [cards |-> << >>, slept |-> FALSE, raised |-> FALSE]
  ELSE [cards |-> [i \in 1..Len(resp.items) |-> extract_card(resp.items[i])],
        slept |-> TRUE, raised |-> FALSE]

\* What get_card_info returns (cards), whether it reached asyncio.sleep (slept)
\* and whether an exception leaves it (raised): every exception is caught at
\* line 139 and gives [] without the delay.
get_card_info(resp) ==
  IF resp.error \/ ParseRaises(resp.items)
  THEN [cards |-> << >>, slept |-> FALSE, raised |-> FALSE]
  ELSE [cards |-> [i \in 1..Len(resp.items) |-> extract_card(resp.items[i])],
        slept |-> TRUE, raised |-> FALSE]

(* ------------------------------- state ------------------------------- *)

VARIABLES
  files,           \* the store files on disk: output file name -> file
  clock,           \* the last timestamp datetime.now() gave
  runs,            \* runs of the scraper completed
  served,          \* listing items the site has served so far
  pc,              \* where main is: "idle", "gather", "collected", or
                   \* "crashed" when an exception has left main
  argv,            \* the page list of the command line, << >> without one
  group,           \* the loop variable of the full-range loop
  tasks,           \* the get_card_info tasks of the current asyncio.gather
  all_cards,       \* main's all_cards
  existing_cards,  \* main's existing_cards, as load_existing_cards returned it
  current_time,    \* the timestamp of the run's merge
  failed,          \* the pages of this run whose request raised a transport error
  store_found,     \* how main found the store file: "absent", "corrupt", "json",
                   \* or "none" before it has looked
  disk,            \* the file names in images/brands and images/cards
  dl_pc,           \* where process_cards is: "idle", "brands", "cards"
  dl_runs,         \* runs of the image downloader completed
  scan,            \* existing_brand_images and existing_card_images
  new_urls,        \* new_brand_urls and new_card_urls
  downloads,       \* the download_image tasks of the run: <<category, url>> ->
                   \* "requested", "ok" (written) or "failed"
  mc_in,           \* one call of merge_cards: its arguments as passed
  mc,              \* the call's merged and new_cards as the loop has left them
  mc_i,            \* the position in new_cards the loop is at
  xt_resp,         \* one call of get_card_info: the response it gets
  xt_out           \* what the call returned

scraper_vars ==
  <<clock, runs, served, pc, argv, group, tasks, all_cards,
    existing_cards, current_time, failed, store_found>>

dl_vars ==
  <<disk, dl_pc, dl_runs, scan, new_urls, downloads>>

unit_vars ==
  <<mc_in, mc, mc_i, xt_resp, xt_out>>

vars ==
  <<files, scraper_vars, dl_vars, unit_vars>>

\* An entry of the page list is the page number it spells, or NotAnInt when it
\* spells no integer (no page list of the model asks for a page 0).
NotAnInt ==
  0

\* (a variant that takes every entry for a page number)
int_ok_lenient(tok) ==
  TRUE

\* int(p.strip()) returns
int_ok(tok) ==
  tok # NotAnInt

\* pages = [int(p.strip()) for p in sys.argv[1].split(',')] raises ValueError
ArgRaises(a) ==
  \E i \in 1..Len(a) : ~int_ok(a[i])

\* the output file is named after the page list ('credit_cards_pages_1_2.json')
\* or is 'data/credit_cards_all.json': the page list itself names it here
output_file(a) ==
  a

FileAt(fs, name) ==
  IF name \in DOMAIN fs THEN fs[name] ELSE AbsentFile

WriteFile(fs, name, cards) ==
  [n \in (DOMAIN fs) \cup {name} |-> IF n = name THEN JsonFile(cards) ELSE fs[n]]

\* (a variant whose groups run one page into the next group)
GroupPages_overlap(g) ==
  LET start_page == g * group_size + 1
      end_page   == Min((g + 1) * group_size + 1, total_pages)
  IN [i \in 1..(end_page - start_page + 1) |-> start_page + i - 1]

\* the pages of group g of the full-range loop (lines 186-188)
GroupPages(g) ==
  LET start_page == g * group_size + 1
      end_page   == Min((g + 1) * group_size, total_pages)
  IN [i \in 1..(end_page - start_page + 1) |-> start_page + i - 1]

\* process_page_group up to its await: one get_card_info per page, all of them
\* started by the event loop before any response is handled
StartGroup(pages) ==
  [i \in 1..Len(pages) |-> [page |-> pages[i], st |-> "fetching", cards |-> << >>]]

\* (a variant that puts each page's cards in front of those it has)
RECURSIVE Flatten_reversed(_)
Flatten_reversed(results) ==
  IF results = << >> THEN << >>
  ELSE Flatten_reversed(Tail(results)) \o results[1].cards

\* [card for page_cards in results for card in page_cards]
RECURSIVE Flatten(_)
Flatten(results) ==
  IF results = << >> THEN << >>
  ELSE results[1].cards \o Flatten(Tail(results))

\* get_card_info tasks that have started and not returned
InFlight ==
  {i \in 1..Len(tasks) : tasks[i].st # "done"}

\* the names in use: every name the program holds anywhere
UsedNames ==
  UNION {NamesOf(files[n].cards) : n \in DOMAIN files}
    \cup NamesOf(all_cards)
    \cup UNION {NamesOf(tasks[i].cards) : i \in 1..Len(tasks)}

(* ------------------------------ the site ----------------------------- *)

Fees ==
  {"", "X"}

\* The pages of n well-formed items the site may serve when the names 1..used
\* are in use: names are opaque keys, so a name not yet in use is always the
\* next number.  The items of one page show the same annual fee f.
RECURSIVE Pages(_, _, _)
Pages(n, used, f) ==
  IF n = 0 THEN {<< >>}
  ELSE UNION {{<<Item(nm, f, TRUE)>> \o rest : rest \in Pages(n - 1, Max(used, nm), f)} :
                nm \in 0..(used + 1)}

\* what the site may answer to a page request in the runs on page lists: a
\* well-formed page, or a page whose one item lacks a heading element
PageContents ==
  LET room == Min(MaxItems, (IF runs = 0 THEN MaxCards ELSE MaxRerunCards) - served)
  IN UNION {Pages(n, SetMax(UsedNames), f) : n \in 0..room, f \in Fees}
       \cup (IF room >= 1 THEN {<<Item(0, "", FALSE)>>} ELSE {})

(* ------------------------------- main -------------------------------- *)

Init ==
  /\ files = << >>
  /\ clock = 0
  /\ runs = 0
  /\ served = 0
  /\ pc = "idle"
  /\ argv = << >>
  /\ group = 0
  /\ tasks = << >>
  /\ all_cards = << >>
  /\ existing_cards = << >>
  /\ current_time = 0
  /\ failed = {}
  /\ store_found = "none"
  /\ disk = [brands |-> {}, cards |-> {}]
  /\ dl_pc = "idle"
  /\ dl_runs = 0
  /\ scan = [brands |-> {}, cards |-> {}]
  /\ new_urls = [brands |-> {}, cards |-> {}]
  /\ downloads = << >>
  /\ mc_in = [existing |-> << >>, new |-> << >>, t |-> 0]
  /\ mc = [merged |-> << >>, owner |-> << >>, new |-> << >>]
  /\ mc_i = 1
  /\ xt_resp = Response(TRUE, << >>)
  /\ xt_out = [done |-> FALSE, cards |-> << >>]

\* main up to its first await, or to its return at line 175: the page list is
\* parsed (a = << >> stands for no argument); a ValueError ends the run with
\* the usage message, else the first group's requests are started
main_start(a) ==
  /\ pc \in {"idle", "usage"}
  /\ argv' = a
  /\ IF ArgRaises(a)
     THEN /\ pc' = "usage"
          /\ tasks' = << >>
          /\ runs' = runs + 1
     ELSE /\ pc' = "gather"
          /\ tasks' = StartGroup(IF a = << >> THEN GroupPages(0) ELSE a)
          /\ runs' = runs
  /\ group' = 0
  /\ all_cards' = << >>
  /\ existing_cards' = << >>
  /\ current_time' = 0
  /\ failed' = {}
  /\ store_found' = "none"
  /\ UNCHANGED <<files, clock, served, dl_vars, unit_vars>>

\* get_card_info of task i from the response to its sleep or its return; an
\* exception that left it would leave asyncio.gather and main as well
fetch_done(i, resp) ==
  /\ LET r == get_card_info(resp)
     IN /\ tasks' = [tasks EXCEPT ![i].cards = r.cards,
                                  ![i].st = IF r.slept THEN "sleeping" ELSE "done"]
        /\ pc' = IF r.raised THEN "crashed" ELSE pc
  /\ served' = served + (IF resp.error THEN 0 ELSE Len(resp.items))
  /\ failed' = IF resp.error THEN failed \cup {tasks[i].page} ELSE failed
  /\ UNCHANGED <<files, clock, runs, argv, group, all_cards,
                 existing_cards, current_time, store_found, dl_vars, unit_vars>>

\* await asyncio.sleep(random.uniform(2, 5)) returns; return cards
sleep_done(i) ==
  /\ pc = "gather"
  /\ i \in 1..Len(tasks)
  /\ tasks[i].st = "sleeping"
  /\ tasks' = [tasks EXCEPT ![i].st = "done"]
  /\ UNCHANGED <<files, clock, runs, served, pc, argv, group, all_cards,
                 existing_cards, current_time, failed, store_found, dl_vars,
                 unit_vars>>

\* (a variant that goes on as soon as one get_card_info has returned, the way
\* asyncio.wait with FIRST_COMPLETED does)
gather_done_eager ==
  /\ pc = "gather"
  /\ \E i \in 1..Len(tasks) : tasks[i].st = "done"
  /\ all_cards' = all_cards \o Flatten(tasks)
  /\ IF argv = << >> /\ group + 1 < num_groups
     THEN /\ group' = group + 1
          /\ tasks' = StartGroup(GroupPages(group + 1))
          /\ pc' = "gather"
     ELSE /\ group' = group
          /\ tasks' = << >>
          /\ pc' = "collected"
  /\ UNCHANGED <<files, clock, runs, served, argv, existing_cards,
                 current_time, failed, store_found, dl_vars, unit_vars>>

\* asyncio.gather returns: process_page_group returns the cards of the group,
\* main extends all_cards and goes on to the next group, if there is one
gather_done ==
  /\ pc = "gather"
  /\ InFlight = {}
  /\ all_cards' = all_cards \o Flatten(tasks)
  /\ IF argv = << >> /\ group + 1 < num_groups
     THEN /\ group' = group + 1
          /\ tasks' = StartGroup(GroupPages(group + 1))
          /\ pc' = "gather"
     ELSE /\ group' = group
          /\ tasks' = << >>
          /\ pc' = "collected"
  /\ UNCHANGED <<files, clock, runs, served, argv, existing_cards,
                 current_time, failed, store_found, dl_vars, unit_vars>>

\* (a variant without the try of load_existing_cards: a store file that
\* cannot be parsed ends main with the exception)
main_save_strict(t) ==
  /\ pc = "collected"
  /\ IF FileAt(files, output_file(argv)).state = "corrupt"
     THEN /\ pc' = "crashed"
          /\ store_found' = "corrupt"
          /\ UNCHANGED <<files, clock, runs, served, argv, group, tasks, all_cards,
                         existing_cards, current_time, failed, dl_vars, unit_vars>>
     ELSE LET existing == load_existing_cards(FileAt(files, output_file(argv)))
              m        == merge_cards(existing, all_cards, t)
              stamped  == [i \in 1..Len(all_cards) |-> StampNew(all_cards[i], t)]
          IN /\ existing_cards' = existing
             /\ store_found' = FileAt(files, output_file(argv)).state
             /\ IF existing # << >>
                THEN /\ all_cards' = m.new
                     /\ files' = WriteFile(files, output_file(argv), m.merged)
                ELSE /\ all_cards' = stamped
                     /\ files' = WriteFile(files, output_file(argv), stamped)
             /\ current_time' = t
             /\ clock' = t
             /\ runs' = runs + 1
             /\ pc' = "idle"
             /\ UNCHANGED <<served, argv, group, tasks, failed, dl_vars, unit_vars>>

\* lines 196-213: load the store, merge or stamp, write the store
main_save(t) ==
  /\ pc = "collected"
  /\ store_found' = FileAt(files, output_file(argv)).state
  /\ LET existing == load_existing_cards(FileAt(files, output_file(argv)))
         m        == merge_cards(existing, all_cards, t)
         stamped  == [i \in 1..Len(all_cards) |-> StampNew(all_cards[i], t)]
     IN /\ existing_cards' = existing
        /\ IF existing # << >>
           THEN /\ all_cards' = m.new
                /\ files' = WriteFile(files, output_file(argv), m.merged)
           ELSE /\ all_cards' = stamped
                /\ files' = WriteFile(files, output_file(argv), stamped)
  /\ current_time' = t
  /\ clock' = t
  /\ runs' = runs + 1
  /\ pc' = "idle"
  /\ UNCHANGED <<served, argv, group, tasks, failed, dl_vars, unit_vars>>

\* datetime.now() does not go back
Now ==
  {t \in {clock, clock + 1} : t >= 1}

\* the page lists of the command line: '1', '1,2' and '1,x'
ArgLists ==
  {<<1>>, <<1, 2>>, <<1, NotAnInt>>}

Responses ==
  {Response(TRUE, << >>)} \cup {Response(FALSE, c) : c \in PageContents}

Next ==
  \/ \E a \in ArgLists :
       /\ runs < MaxRuns
       /\ runs > 0 => served < MaxRerunCards
       /\ main_start(a)
  \/ \E i \in 1..Len(tasks) :
       /\ pc = "gather"
       /\ tasks[i].st = "fetching"
       /\ \E resp \in Responses : fetch_done(i, resp)
  \/ \E i \in 1..Len(tasks) : sleep_done(i)
  \/ gather_done
  \/ \E t \in Now : main_save(t)

Spec ==
  Init /\ [][Next]_vars

(* ------------------- a store file that cannot be parsed -------------- *)

\* a store file json.load raises on
CorruptFile ==
  [state |-> "corrupt", cards |-> << >>]

\* One run of the scraper where some of the store files are on disk in a
\* state that cannot be parsed, the others missing.
DamagedStores ==
  {[a \in S |-> CorruptFile] : S \in SUBSET {<<1>>, <<1, 2>>}}

InitCorrupt ==
  /\ files \in DamagedStores
  /\ clock = 0
  /\ runs = 0
  /\ served = 0
  /\ pc = "idle"
  /\ argv = << >>
  /\ group = 0
  /\ tasks = << >>
  /\ all_cards = << >>
  /\ existing_cards = << >>
  /\ current_time = 0
  /\ failed = {}
  /\ store_found = "none"
  /\ disk = [brands |-> {}, cards |-> {}]
  /\ dl_pc = "idle"
  /\ dl_runs = 0
  /\ scan = [brands |-> {}, cards |-> {}]
  /\ new_urls = [brands |-> {}, cards |-> {}]
  /\ downloads = << >>
  /\ mc_in = [existing |-> << >>, new |-> << >>, t |-> 0]
  /\ mc = [merged |-> << >>, owner |-> << >>, new |-> << >>]
  /\ mc_i = 1
  /\ xt_resp = Response(TRUE, << >>)
  /\ xt_out = [done |-> FALSE, cards |-> << >>]

NextCorrupt ==
  \/ \E a \in ArgLists :
       /\ runs = 0
       /\ main_start(a)
  \/ \E i \in 1..Len(tasks) :
       /\ pc = "gather"
       /\ tasks[i].st = "fetching"
       /\ \E resp \in Responses : fetch_done(i, resp)
  \/ \E i \in 1..Len(tasks) : sleep_done(i)
  \/ gather_done
  \/ \E t \in Now : main_save(t)

SpecCorrupt ==
  InitCorrupt /\ [][NextCorrupt]_vars

(* ------------------------ one call of get_card_info ------------------ *)

\* the longest page of the calls
MaxExtractItems ==
  2

\* The listing items of the calls: with or without a name link, with or
\* without an annual fee row, with or without the heading of a row.
ExtractItems ==
  {Item(n, f, h) : n \in {0, 1, 2}, f \in Fees, h \in BOOLEAN}

ExtractResponses ==
  {Response(TRUE, << >>)}
    \cup {Response(FALSE, c) :
            c \in UNION {[1..k -> ExtractItems] : k \in 0..MaxExtractItems}}

InitExtract ==
  /\ files = << >>
  /\ clock = 0
  /\ runs = 0
  /\ served = 0
  /\ pc = "idle"
  /\ argv = << >>
  /\ group = 0
  /\ tasks = << >>
  /\ all_cards = << >>
  /\ existing_cards = << >>
  /\ current_time = 0
  /\ failed = {}
  /\ store_found = "none"
  /\ disk = [brands |-> {}, cards |-> {}]
  /\ dl_pc = "idle"
  /\ dl_runs = 0
  /\ scan = [brands |-> {}, cards |-> {}]
  /\ new_urls = [brands |-> {}, cards |-> {}]
  /\ downloads = << >>
  /\ mc_in = [existing |-> << >>, new |-> << >>, t |-> 0]
  /\ mc = [merged |-> << >>, owner |-> << >>, new |-> << >>]
  /\ mc_i = 1
  /\ xt_resp \in ExtractResponses
  /\ xt_out = [done |-> FALSE, cards |-> << >>]

\* get_card_info is called on the response and returns
get_card_info_call ==
  /\ ~xt_out.done
  /\ xt_out' = [done |-> TRUE, cards |-> get_card_info(xt_resp).cards]
  /\ UNCHANGED <<files, scraper_vars, dl_vars, mc_in, mc, mc_i, xt_resp>>

NextExtract ==
  get_card_info_call

SpecExtract ==
  InitExtract /\ [][NextExtract]_vars

(* ------------------------- one call of merge_cards ------------------- *)

\* the longest new_cards of the calls
MaxMergeNew ==
  2

\* the names and the annual fees ("" for a record without the field) of the
\* records of the calls
MergeNames ==
  {1, 2}

MergeFees ==
  {"", "X", "Y"}

\* a record of the store, created at time 1 and last updated at time 1 or 2
MergeStored ==
  {DictSet(DictSet(extract_card(Item(n, f, TRUE)), "created_at", 1), "updated_at", u) :
     n \in MergeNames, f \in MergeFees, u \in {1, 2}}

\* existing_cards as load_existing_cards gives it: one record a name
MergeExisting ==
  {e \in UNION {[1..k -> MergeStored] : k \in 0..Cardinality(MergeNames)} :
     \A i, j \in 1..Len(e) : e[i].name = e[j].name => i = j}

\* new_cards as the scrape gives it: records with or without a name, a name
\* more than once
MergeNew ==
  UNION {[1..k -> {extract_card(Item(n, f, TRUE)) :
                     n \in {0} \cup MergeNames, f \in MergeFees}] :
           k \in 0..MaxMergeNew}

InitMerge ==
  /\ files = << >>
  /\ clock = 0
  /\ runs = 0
  /\ served = 0
  /\ pc = "idle"
  /\ argv = << >>
  /\ group = 0
  /\ tasks = << >>
  /\ all_cards = << >>
  /\ existing_cards = << >>
  /\ current_time = 0
  /\ failed = {}
  /\ store_found = "none"
  /\ disk = [brands |-> {}, cards |-> {}]
  /\ dl_pc = "idle"
  /\ dl_runs = 0
  /\ scan = [brands |-> {}, cards |-> {}]
  /\ new_urls = [brands |-> {}, cards |-> {}]
  /\ downloads = << >>
  /\ \E e \in MergeExisting, n \in MergeNew, t \in {2, 3} :
       /\ mc_in = [existing |-> e, new |-> n, t |-> t]
       /\ mc = [merged |-> e, owner |-> [k \in 1..Len(e) |-> 0], new |-> n]
  /\ mc_i = 1
  /\ xt_resp = Response(TRUE, << >>)
  /\ xt_out = [done |-> FALSE, cards |-> << >>]

\* one iteration of the loop at lines 33-46
merge_iter ==
  /\ mc_i <= Len(mc.new)
  /\ mc' = merge_step(mc, mc_i, mc_in.t)
  /\ mc_i' = mc_i + 1
  /\ UNCHANGED <<files, scraper_vars, dl_vars, mc_in, xt_resp, xt_out>>

NextMerge ==
  merge_iter

SpecMerge ==
  InitMerge /\ [][NextMerge]_vars

(* --------------------- the schedule of the requests ------------------ *)

\* Runs over the full range and over a page list longer than a group, on a
\* site whose page p lists the one card p for p <= SchedSitePages and nothing
\* beyond; the requests of those pages may fail.
SitePage(p) ==
  IF p <= SchedSitePages THEN <<Item(p, "X", TRUE)>> ELSE << >>

SchedResponses(p) ==
  {Response(FALSE, SitePage(p))}
    \cup (IF p <= SchedSitePages THEN {Response(TRUE, << >>)} ELSE {})

SchedArgLists ==
  {<< >>, [i \in 1..SchedArgPages |-> i]}

NextSched ==
  \/ \E a \in SchedArgLists :
       /\ runs = 0
       /\ main_start(a)
  \/ \E i \in 1..Len(tasks) :
       /\ pc = "gather"
       /\ tasks[i].st = "fetching"
       /\ \E resp \in SchedResponses(tasks[i].page) : fetch_done(i, resp)
  \/ \E i \in 1..Len(tasks) : sleep_done(i)
  \/ gather_done
  \/ \E t \in Now : main_save(t)

SpecSched ==
  Init /\ [][NextSched]_vars

(* --------------------------- image downloader ------------------------ *)

\* An image URL is its directory part and the base name of its path; a file
\* name is a stem and an extension.
Url(d, b) ==
  [dir |-> d, base |-> b]

FileName(stem, ext) ==
  [stem |-> stem, ext |-> ext]

\* os.path.basename(urlparse(url).path)
get_filename_from_url(url) ==
  url.base

\* (a variant whose patterns leave out *.png)
load_existing_images_no_png(names) ==
  {f \in names : f.ext \in {"jpg", "jpeg", "gif"}}

\* the names of a directory that match *.png, *.jpg, *.jpeg or *.gif
load_existing_images(names) ==
  {f \in names : f.ext \in {"png", "jpg", "jpeg", "gif"}}

\* lines 63-72: the image URLs of the cards and of their brands, as two sets
card_urls(cards) ==
  {cards[i].image_url : i \in {j \in 1..Len(cards) : "image_url" \in DOMAIN cards[j]}}

brand_urls(cards) ==
  UNION {{cards[i].brands[k].image_url :
            k \in {l \in 1..Len(cards[i].brands) : "image_url" \in DOMAIN cards[i].brands[l]}} :
         i \in {j \in 1..Len(cards) : "brands" \in DOMAIN cards[j]}}

\* (a variant that looks the URL up in the scan, not its file name)
NewUrls_by_url(urls, existing) ==
  {u \in urls : u \notin existing}

\* lines 81-89: the URLs whose file name is not in the scan
NewUrls(urls, existing) ==
  {u \in urls : get_filename_from_url(u) \notin existing}

\* the download_image tasks of one category, all started together
Dispatch(cat, urls) ==
  [d \in {<<cat, u>> : u \in urls} |-> "requested"]

Merge2(f, g) ==
  [d \in (DOMAIN f) \cup (DOMAIN g) |-> IF d \in DOMAIN g THEN g[d] ELSE f[d]]

\* the store process_cards reads
DlStoreFile ==
  FileAt(files, output_file(<< >>))

\* process_cards up to its first await: scan the directories, load the store,
\* collect and filter the URLs, start the brand downloads, or the card
\* downloads when no brand image is new
dl_start ==
  /\ dl_pc = "idle"
  /\ dl_runs < MaxDlRuns
  /\ LET sc  == [brands |-> load_existing_images(disk.brands),
                 cards  |-> load_existing_images(disk.cards)]
         ok  == DlStoreFile.state = "json"
         nb  == IF ok THEN NewUrls(brand_urls(DlStoreFile.cards), sc.brands) ELSE {}
         nc  == IF ok THEN NewUrls(card_urls(DlStoreFile.cards), sc.cards) ELSE {}
     IN /\ scan' = sc
        /\ new_urls' = [brands |-> nb, cards |-> nc]
        /\ downloads' = IF nb # {} THEN Dispatch("brands", nb) ELSE Dispatch("cards", nc)
        /\ dl_pc' = IF nb # {} THEN "brands" ELSE IF nc # {} THEN "cards" ELSE "idle"
        /\ dl_runs' = IF nb = {} /\ nc = {} THEN dl_runs + 1 ELSE dl_runs
  /\ UNCHANGED <<files, scraper_vars, disk, unit_vars>>

\* download_image from the response on: status 200 writes the file (ok), any
\* other status or an exception gives False
dl_response(d, ok) ==
  /\ dl_pc \in {"brands", "cards"}
  /\ d \in DOMAIN downloads
  /\ downloads[d] = "requested"
  /\ downloads' = [downloads EXCEPT ![d] = IF ok THEN "ok" ELSE "failed"]
  /\ disk' = IF ok
             THEN [disk EXCEPT ![d[1]] = @ \cup {get_filename_from_url(d[2])}]
             ELSE disk
  /\ UNCHANGED <<files, scraper_vars, dl_pc, dl_runs, scan, new_urls, unit_vars>>

\* asyncio.gather returns: after the brand images the card images, if any is new
dl_gather_done ==
  /\ dl_pc \in {"brands", "cards"}
  /\ \A d \in DOMAIN downloads : downloads[d] # "requested"
  /\ IF dl_pc = "brands" /\ new_urls.cards # {}
     THEN /\ downloads' = Merge2(downloads, Dispatch("cards", new_urls.cards))
          /\ dl_pc' = "cards"
          /\ dl_runs' = dl_runs
     ELSE /\ downloads' = downloads
          /\ dl_pc' = "idle"
          /\ dl_runs' = dl_runs + 1
  /\ UNCHANGED <<files, scraper_vars, disk, scan, new_urls, unit_vars>>

\* the image URLs and the stores the downloader runs on
DlFileNames ==
  {FileName("v", "png"), FileName("w", "webp")}

\* two URLs that share the base name v.png, and one whose extension the scan
\* does not list
DlUrls ==
  {Url("a", b) : b \in DlFileNames} \cup {Url("b", FileName("v", "png"))}

DlBrands ==
  {[name |-> "brand", image_url |-> u] : u \in DlUrls}

DlCards ==
  {[features |-> << >>]}
    \cup {[features |-> << >>, image_url |-> u] : u \in DlUrls}
    \cup {[features |-> << >>, brands |-> <<b>>] : b \in DlBrands}
    \cup {[features |-> << >>, image_url |-> u, brands |-> <<b>>] : u \in DlUrls, b \in DlBrands}

DlStores ==
  UNION {[1..n -> DlCards] : n \in 0..MaxDlCards}

InitDl ==
  /\ \E cards \in DlStores : files = WriteFile(<< >>, output_file(<< >>), cards)
  /\ clock = 0
  /\ runs = 0
  /\ served = 0
  /\ pc = "idle"
  /\ argv = << >>
  /\ group = 0
  /\ tasks = << >>
  /\ all_cards = << >>
  /\ existing_cards = << >>
  /\ current_time = 0
  /\ failed = {}
  /\ store_found = "none"
  /\ \E b \in SUBSET DlFileNames, c \in SUBSET DlFileNames : disk = [brands |-> b, cards |-> c]
  /\ dl_pc = "idle"
  /\ dl_runs = 0
  /\ scan = [brands |-> {}, cards |-> {}]
  /\ new_urls = [brands |-> {}, cards |-> {}]
  /\ downloads = << >>
  /\ mc_in = [existing |-> << >>, new |-> << >>, t |-> 0]
  /\ mc = [merged |-> << >>, owner |-> << >>, new |-> << >>]
  /\ mc_i = 1
  /\ xt_resp = Response(TRUE, << >>)
  /\ xt_out = [done |-> FALSE, cards |-> << >>]

NextDl ==
  \/ dl_start
  \/ \E d \in DOMAIN downloads : \E ok \in BOOLEAN : dl_response(d, ok)
  \/ dl_gather_done

SpecDl ==
  InitDl /\ [][NextDl]_vars

(* ------------------------------ the claims --------------------------- *)

\* a run has ended: main has written the store
RunEnded ==
  pc = "idle" /\ runs > 0

\* the store of the run: the list the output file holds
Store ==
  FileAt(files, output_file(argv)).cards

RecordsNamed(cards, n) ==
  {cards[i] : i \in {j \in 1..Len(cards) : HasName(cards[j]) /\ cards[j].name = n}}

\* C1: when a run has merged new records into the store it loaded, every new
\* record whose name was a key of the loaded mapping is in the output with the
\* created_at the loaded record had and with updated_at equal to the one
\* timestamp of the merge.
C1_CreatedKept ==
  RunEnded =>
    \A n \in NamesOf(all_cards) \cap NamesOf(existing_cards) :
      /\ RecordsNamed(Store, n) # {}
      /\ \A out \in RecordsNamed(Store, n) :
           /\ out.created_at = existing_cards[KeyIndex(existing_cards, n)].created_at
           /\ out.updated_at = current_time

\* a run has merged a record onto a stored record of an earlier time
C1_Witness ==
  /\ RunEnded
  /\ \E n \in NamesOf(all_cards) \cap NamesOf(existing_cards) :
       \E out \in RecordsNamed(Store, n) : out.created_at < out.updated_at

\* C2: no record lacking a name is returned by get_card_info, and none is in
\* a store file.
C2_NoNameless ==
  /\ \A i \in 1..Len(tasks) : \A j \in 1..Len(tasks[i].cards) : HasName(tasks[i].cards[j])
  /\ \A f \in DOMAIN files : \A j \in 1..Len(files[f].cards) : HasName(files[f].cards[j])

\* C3: every store file holds at most one record per name.
C3_UniqueNames ==
  \A f \in DOMAIN files :
    \A i, j \in 1..Len(files[f].cards) :
      (/\ HasName(files[f].cards[i])
       /\ HasName(files[f].cards[j])
       /\ files[f].cards[i].name = files[f].cards[j].name) => i = j

\* C4: every record of every store file has a created_at and an updated_at,
\* and created_at <= updated_at.
C4_Stamped ==
  \A f \in DOMAIN files :
    \A i \in 1..Len(files[f].cards) :
      LET r == files[f].cards[i]
      IN /\ "created_at" \in DOMAIN r
         /\ "updated_at" \in DOMAIN r
         /\ r.created_at <= r.updated_at

\* a stored record that a later run has updated
C4_Witness ==
  \E f \in DOMAIN files :
    \E i \in 1..Len(files[f].cards) :
      files[f].cards[i].created_at < files[f].cards[i].updated_at

\* C5: when a run has ended, every scraped name that was no key of the loaded
\* mapping is in the store with created_at = updated_at = the timestamp of the
\* run; and when the run loaded nothing and scraped k records of k distinct
\* names, the store holds exactly k records (6 for 2 pages of 3).
C5_NewInserted ==
  RunEnded =>
    /\ \A n \in NamesOf(all_cards) \ NamesOf(existing_cards) :
         /\ RecordsNamed(Store, n) # {}
         /\ \A out \in RecordsNamed(Store, n) :
              out.created_at = current_time /\ out.updated_at = current_time
    /\ (/\ existing_cards = << >>
        /\ Cardinality(NamesOf(all_cards)) = Len(all_cards))
         => /\ Len(Store) = Len(all_cards)
            /\ \A i \in 1..Len(Store) : Store[i].created_at = Store[i].updated_at

\* the first run, on pages 1 and 2, has scraped 6 records of 6 names and has
\* stored 6 records
C5_Witness ==
  /\ RunEnded
  /\ runs = 1
  /\ argv = <<1, 2>>
  /\ Len(all_cards) = 6
  /\ Cardinality(NamesOf(all_cards)) = 6
  /\ Len(Store) = 6
  /\ \A i \in 1..6 : Store[i].created_at = Store[i].updated_at

\* C6: a step deletes no record of a store file: a file stays, a named record
\* of it stays under its name, a record without a name stays as it is.
C6_NoDeletion ==
  [][\A f \in DOMAIN files :
       /\ f \in DOMAIN files'
       /\ \A i \in 1..Len(files[f].cards) :
            LET r == files[f].cards[i]
            IN IF HasName(r)
               THEN r.name \in NamesOf(files'[f].cards)
               ELSE r \in Range(files'[f].cards)]_vars

\* C7 as claimed: in both invocation modes at most group_size requests are
\* in flight.
C7_AtMostGroupSize ==
  Cardinality(InFlight) <= group_size

\* C7 as amended: over the full range at most group_size requests are in
\* flight; with a page list, at most as many as the list has pages.
C7_AtMostGroupOrList ==
  /\ argv = << >> => Cardinality(InFlight) <= group_size
  /\ argv # << >> => Cardinality(InFlight) <= Len(argv)

\* a full-range run with a whole group in flight
C7_Witness ==
  /\ pc = "gather"
  /\ argv = << >>
  /\ group > 0
  /\ Cardinality(InFlight) = group_size

\* the pages a run requests
RunPages ==
  IF argv = << >> THEN 1..total_pages ELSE Range(argv)

\* C8: a request that fails with a transport error gives an empty list and
\* never makes main crash; when the run has ended the store is written and
\* holds the card of every page that lists one and whose request did not fail.
C8_FailureIsolated ==
  /\ pc # "crashed"
  /\ \A i \in 1..Len(tasks) :
       (tasks[i].page \in failed /\ tasks[i].st = "done") => tasks[i].cards = << >>
  /\ RunEnded =>
       /\ output_file(argv) \in DOMAIN files
       /\ \A p \in RunPages :
            (p <= SchedSitePages /\ p \notin failed) => p \in NamesOf(Store)

\* a full-range run has ended in which the request of page 1 failed: the store
\* holds the card of page 2, of the same group, and of page 6, of the next
C8_Witness ==
  /\ RunEnded
  /\ argv = << >>
  /\ failed = {1}
  /\ NamesOf(Store) \cap {1, 2, 6} = {2, 6}

\* the requests a download run has issued, as <<category, url>>
Requested ==
  DOMAIN downloads

\* C9: two distinct URLs of one category with the same base name are not both
\* requested in one download run.
C9_OneRequestPerFileName ==
  \A d1, d2 \in Requested :
    (d1[1] = d2[1] /\ get_filename_from_url(d1[2]) = get_filename_from_url(d2[2]))
      => d1 = d2

\* every image URL the store references has its file name in the scan
ScanCovers ==
  /\ \A u \in card_urls(DlStoreFile.cards) : get_filename_from_url(u) \in scan.cards
  /\ \A u \in brand_urls(DlStoreFile.cards) : get_filename_from_url(u) \in scan.brands

\* C10: a download run whose scan covers the file name of every referenced
\* URL issues no request.
C10_CoveredNoRequest ==
  (dl_runs > 0 \/ dl_pc # "idle") => (ScanCovers => Requested = {})

\* a download run has ended on a store that references a card image and a
\* brand image, both covered by the scan, and has requested nothing
C10_Witness ==
  /\ dl_runs > 0
  /\ dl_pc = "idle"
  /\ card_urls(DlStoreFile.cards) # {}
  /\ brand_urls(DlStoreFile.cards) # {}
  /\ ScanCovers
  /\ Requested = {}


\* C11: when the page list of the command line has an entry that is no integer,
\* the run ends at the usage message: it has sent no request (no task was
\* started, nothing was served), and no store file is created or written (no
\* file bears the name of such a list, and the step that ends the run leaves
\* every file as it was).
C11_BadListNoEffect ==
  /\ [](NotAnInt \in Range(argv) =>
          /\ pc = "usage"
          /\ tasks = << >>
          /\ all_cards = << >>)
  /\ [](\A f \in DOMAIN files : NotAnInt \notin Range(f))
  /\ [][(NotAnInt \in Range(argv')) => (files' = files /\ served' = served)]_vars

\* a run on '1,x' has ended after an earlier run wrote the store of '1'
C11_Witness ==
  /\ pc = "usage"
  /\ argv = <<1, NotAnInt>>
  /\ runs = 2
  /\ <<1>> \in DOMAIN files
  /\ Len(files[<<1>>].cards) >= 1


\* C12: when the store file is missing or cannot be parsed, the run raises no
\* error and ends with a store that holds exactly the records it scraped, in
\* their order, each stamped as new: created_at and updated_at both the time
\* of the run.
C12_LoadFailureIsFresh ==
  /\ pc # "crashed"
  /\ (RunEnded /\ store_found \in {"absent", "corrupt"}) =>
       /\ existing_cards = << >>
       /\ FileAt(files, output_file(argv)).state = "json"
       /\ Len(Store) = Len(all_cards)
       /\ \A i \in 1..Len(Store) :
            /\ Store[i] = all_cards[i]
            /\ {"created_at", "updated_at"} \subseteq DOMAIN Store[i]
            /\ Store[i].created_at = current_time
            /\ Store[i].updated_at = current_time

\* a run on '1' found a store that cannot be parsed and wrote two records,
\* while the store of '1,2' is still the damaged one
C12_Witness ==
  /\ RunEnded
  /\ store_found = "corrupt"
  /\ argv = <<1>>
  /\ Len(Store) = 2
  /\ FileAt(files, <<1, 2>>).state = "corrupt"


\* the group of the full-range loop a page belongs to
GroupOf(page) ==
  (page - 1) \div group_size

\* the fetches a step starts
Started ==
  {j \in 1..Len(tasks') :
     /\ tasks'[j].st = "fetching"
     /\ ~(j <= Len(tasks) /\ tasks[j] = tasks'[j])}

\* C13: in a full-range run the fetches the program holds are those of the
\* current group, and a step that starts a fetch of group k+1 is taken only
\* when every fetch of group k has returned, its delay after the fetch
\* included.
C13_GroupsInTurn ==
  /\ [](argv = << >> =>
          \A i \in 1..Len(tasks) : GroupOf(tasks[i].page) = group)
  /\ [][\A j \in Started :
          (argv' = << >> /\ GroupOf(tasks'[j].page) >= 1) =>
            /\ group = GroupOf(tasks'[j].page) - 1
            /\ tasks # << >>
            /\ \A i \in 1..Len(tasks) : tasks[i].st = "done"]_vars

\* the fetches of group 1 have started after the five cards of group 0 came in
C13_Witness ==
  /\ argv = << >>
  /\ pc = "gather"
  /\ group = 1
  /\ Len(tasks) = group_size
  /\ \A i \in 1..Len(tasks) : tasks[i].st = "fetching"
  /\ Len(all_cards) = group_size


\* the cards of the results before result i
RECURSIVE CardsBefore(_, _)
CardsBefore(results, i) ==
  IF i <= 1 THEN 0
  ELSE CardsBefore(results, i - 1) + Len(results[i - 1].cards)

\* C14: when asyncio.gather returns, result i is that of the i-th page given,
\* and what process_page_group returns (the cards main appends to all_cards)
\* is the cards of result 1, then those of result 2, and so on, each result's
\* cards in the order get_card_info returned them.
C14_PageOrderKept ==
  [][(pc = "gather" /\ (pc' = "collected" \/ group' = group + 1)) =>
       /\ \A i \in 1..Len(tasks) :
            tasks[i].page = (IF argv = << >> THEN GroupPages(group) ELSE argv)[i]
       /\ Len(all_cards') = Len(all_cards) + CardsBefore(tasks, Len(tasks) + 1)
       /\ \A n \in 1..Len(all_cards) : all_cards'[n] = all_cards[n]
       /\ \A i \in 1..Len(tasks) :
            \A j \in 1..Len(tasks[i].cards) :
              all_cards'[Len(all_cards) + CardsBefore(tasks, i) + j]
                = tasks[i].cards[j]]_vars

\* the run on '1,2' has its cards: two of page 1 (the second without a fee),
\* then two of page 2 (with their fee)
C14_Witness ==
  /\ pc = "collected"
  /\ argv = <<1, 2>>
  /\ runs = 0
  /\ Len(all_cards) = 4
  /\ \A i \in 1..4 : HasName(all_cards[i]) /\ all_cards[i].name = i
  /\ "annual_fee" \notin DOMAIN all_cards[1]
  /\ "annual_fee" \notin DOMAIN all_cards[2]
  /\ "annual_fee" \in DOMAIN all_cards[3]
  /\ "annual_fee" \in DOMAIN all_cards[4]


\* C15: when the page came in and an item of it lacks the heading of a
\* specification row, get_card_info still returns the record of every other
\* item of the page, and it does not return the empty list for a page that
\* has items.
C15_MissingPartOmitsField ==
  (xt_out.done /\ ~xt_resp.error) =>
    /\ xt_resp.items # << >> => xt_out.cards # << >>
    /\ \A i \in 1..Len(xt_resp.items) :
         xt_resp.items[i].spec_head =>
           extract_card(xt_resp.items[i]) \in Range(xt_out.cards)


\* C16: an iteration that merges a new record onto the record merged has
\* under its name leaves that record with the value of the new record in every
\* field the new record has, and with the value it had in every other field
\* but updated_at, which is the time of the call.
C16_ShallowMerge ==
  [][(mc_i' = mc_i + 1 /\ HasName(mc.new[mc_i])
        /\ KeyIndex(mc.merged, mc.new[mc_i].name) # 0) =>
       LET card == mc.new[mc_i]
           k    == KeyIndex(mc.merged, card.name)
           old  == mc.merged[k]
           res  == mc'.merged[k]
       IN /\ \A f \in DOMAIN card : f \in DOMAIN res /\ res[f] = card[f]
          /\ \A f \in (DOMAIN old \ DOMAIN card) \ {"updated_at"} :
               f \in DOMAIN res /\ res[f] = old[f]
          /\ res.updated_at = mc_in.t]_vars

\* the call has merged card 1 with fee Y onto the stored card 1 with fee X,
\* and card 2 without a fee onto the stored card 2 with fee X
C16_Witness ==
  /\ mc_i = 3
  /\ Len(mc_in.existing) = 2
  /\ \A k \in 1..2 :
       /\ mc_in.existing[k].name = k
       /\ "annual_fee" \in DOMAIN mc_in.existing[k]
       /\ mc_in.existing[k].annual_fee = "X"
       /\ mc_in.existing[k].updated_at < mc_in.t
  /\ mc_in.new = <<extract_card(Item(1, "Y", TRUE)), extract_card(Item(2, "", TRUE))>>
  /\ mc.merged[1].annual_fee = "Y"
  /\ mc.merged[2].annual_fee = "X"
  /\ mc.merged[1].created_at = 1
  /\ mc.merged[1].updated_at = mc_in.t


\* the call of merge_cards has returned
MergeReturned ==
  mc_i > Len(mc.new)

\* the records of existing_cards as the call has left them
ExistingAfter ==
  SubSeq(mc.merged, 1, Len(mc_in.existing))

\* C17 as claimed: merge_cards leaves its inputs as they were: the existing
\* mapping with every record of it, and the records of the new list.
C17_InputsUnchanged ==
  MergeReturned =>
    /\ ExistingAfter = mc_in.existing
    /\ mc.new = mc_in.new

\* C17 amended: merge_cards leaves the existing mapping with its keys in their
\* order, and it leaves as they were the existing records whose name is not
\* in the new list and the new records it does not insert; a new record it
\* inserts is the record of the output, with created_at and updated_at.
C17_OnlyMergedTouched ==
  MergeReturned =>
    /\ Len(mc.merged) >= Len(mc_in.existing)
    /\ \A k \in 1..Len(mc_in.existing) :
         /\ mc.merged[k].name = mc_in.existing[k].name
         /\ mc.owner[k] = 0
         /\ mc_in.existing[k].name \notin NamesOf(mc_in.new)
              => mc.merged[k] = mc_in.existing[k]
    /\ Len(mc.new) = Len(mc_in.new)
    /\ \A i \in 1..Len(mc.new) :
         i \notin Range(mc.owner) => mc.new[i] = mc_in.new[i]
    /\ \A k \in (Len(mc_in.existing) + 1)..Len(mc.merged) :
         /\ mc.owner[k] \in 1..Len(mc.new)
         /\ mc.new[mc.owner[k]] = mc.merged[k]
         /\ mc_in.new[mc.owner[k]].name = mc.merged[k].name
         /\ mc.merged[k].name \notin NamesOf(mc_in.existing)
         /\ {"created_at", "updated_at"} \subseteq DOMAIN mc.merged[k]

\* the call has returned: the stored card 1 has the new fee and the time of
\* the call, the stored card 2 is as it was, the new card without a name is
\* as it was
C17_Witness ==
  /\ MergeReturned
  /\ Len(mc_in.existing) = 2
  /\ mc_in.existing[1].name = 1
  /\ mc_in.new = <<extract_card(Item(1, "Y", TRUE)), extract_card(Item(0, "X", TRUE))>>
  /\ ExistingAfter[1] # mc_in.existing[1]
  /\ ExistingAfter[2] = mc_in.existing[2]
  /\ mc.new = mc_in.new


\* a download run starts right after a run all of whose downloads succeeded
RunAfterCleanRun ==
  /\ dl_pc = "idle"
  /\ dl_runs >= 1
  /\ \A d \in DOMAIN downloads : downloads[d] = "ok"
  /\ dl_pc' # "idle" \/ dl_runs' = dl_runs + 1

\* the URLs of a set whose base name has an extension the scan lists
Recognized(urls) ==
  {u \in urls : u.base.ext \in {"png", "jpg", "jpeg", "gif"}}

\* C18 as claimed: a download run that follows a run all of whose downloads
\* succeeded finds no URL to request, whatever the base names.
C18_SecondRunNoRequest ==
  [][RunAfterCleanRun =>
       /\ new_urls'.brands = {}
       /\ new_urls'.cards = {}
       /\ DOMAIN downloads' = {}]_vars

\* C18 amended: a download run that follows a run all of whose downloads
\* succeeded finds to request the URLs whose base name has an extension
\* other than png, jpg, jpeg and gif, and no other URL.
C18_RecognizedNoRequest ==
  [][RunAfterCleanRun =>
       /\ new_urls'.brands = brand_urls(DlStoreFile.cards)
                               \ Recognized(brand_urls(DlStoreFile.cards))
       /\ new_urls'.cards = card_urls(DlStoreFile.cards)
                              \ Recognized(card_urls(DlStoreFile.cards))
       /\ \A d \in DOMAIN downloads' : d[2] \notin Recognized({d[2]})]_vars

\* the second run, on a store with the card images a/v.png and a/w.webp that
\* are both on disk, requests a/w.webp and only that
C18_Witness ==
  /\ dl_runs = 1
  /\ dl_pc = "cards"
  /\ card_urls(DlStoreFile.cards)
       = {Url("a", FileName("v", "png")), Url("a", FileName("w", "webp"))}
  /\ disk.cards = {FileName("v", "png"), FileName("w", "webp")}
  /\ scan.cards = {FileName("v", "png")}
  /\ DOMAIN downloads = {<<"cards", Url("a", FileName("w", "webp"))>>}

====
